---- MODULE Spec2Model ----
(***************************************************************************)
(* Model of the job pipeline of "Doc Classifier/backend/app.py": the job   *)
(* store JOBS, the JobState records, the worker thread process_job (one    *)
(* step per write to a shared JobState field), and the request handlers    *)
(* start_process, get_job, cancel_job.                                     *)
(*                                                                         *)
(* Threads.  Every job has its own worker thread (threading.Thread in      *)
(* start_process).  Request handlers run on one request thread: one        *)
(* handler is in flight at a time (variable req) and it interleaves        *)
(* freely, read by read and write by write, with all worker threads.       *)
(* A worker step is at most one access to a shared JobState field together *)
(* with the thread-local computation that precedes it.                     *)
(***************************************************************************)
EXTENDS Integers, Sequences, FiniteSets, TLC

\* ---------------------------------------------------------------- bounds
MaxSlots == 2       \* JobState objects the server can hold
NumIds == 2         \* distinct values uuid4().hex[:12] may take
MaxJobs == 1        \* Spec: submissions accepted in one run of the server
MaxDocs == 2        \* Spec: files in one upload
MaxPages == 2       \* Spec: pages in one upload, all its files together
MaxCancels == 1     \* Spec: cancel requests in one run of the server
PollDocs == 1       \* PollSpec: files in one upload
PollPages == 1      \* PollSpec: pages in one upload

\* ------------------------------------------------------- program constants
LogCap == 4000      \* job_log: truncate when len(job.log) > 4000
LogKeep == 2000     \* job_log: job.log[-2000:]
StartPct == 1       \* process_job: job.progress_pct = 1
DonePct == 100      \* process_job: job.progress_pct = 100
LogTail == 40       \* get_job: job.log[-40:]

JobSlots == 1..MaxSlots
DocIds == 1..MaxDocs          \* k stands for the k-th file name in sorted() order
JobIds == 1..NumIds

VARIABLES
  lim,                \* the bounds of the run: [jobs, docs, pages, cancels, oracle,
                      \* faults], never written
  client,             \* TRUE iff the module-level Groq client is not None
  pdfinfo_from_path,  \* TRUE iff the optional import succeeded
  JOBS,               \* the job store: job id -> slot of its JobState, 0 = no entry
  job,                \* job[j]: the JobState object of the j-th submission
  w,                  \* w[j]: locals and position of the worker thread of job j
  fs,                 \* fs[j]: the job directory of job j on disk
  req,                \* the request handler in flight
  ncancel,            \* cancel requests counted against lim.cancels
  h,                  \* h[j]: history of job j, read by no program step
  pollh               \* history of the poll in flight, read by no program step

vars == <<lim, client, pdfinfo_from_path, JOBS, job, w, fs, req, ncancel, h, pollh>>

\* ----------------------------------------------------------------- values
None == "None"

Msg(text) == [text |-> text, doc |-> 0, page |-> 0, of |-> 0]
PageMsg(d, n, len) == [text |-> "page", doc |-> d, page |-> n, of |-> len]

LogLine(tag, d, n, info) == [tag |-> tag, doc |-> d, page |-> n, info |-> info]

\* class JobState: a freshly constructed record
JobState(id) ==
  [ job_id |-> id, status |-> "queued", progress_pct |-> 0,
    message |-> Msg("Queued"), error |-> None, cancel_requested |-> FALSE,
    log |-> << >>, total_pages |-> 0, processed_pages |-> 0,
    csv_path |-> None, zip_all |-> None, zip_receipts_unstamped |-> None,
    zip_receipts_stamped |-> None, zip_credit_notes |-> None ]

\* an unused slot: no JobState has been constructed there (job_id 0 is no id)
NoJob == JobState(0)

Created(j) == job[j].job_id # 0

Terminal == {"done", "error", "cancelled"}

\* job_log(job, line), line 77: job.log.append(line)
job_log(log, line) == Append(log, line)

\* job_log, lines 79-80: the list job.log[-2000:] that the thread builds, and then
\* assigns to job.log, when it finds len(job.log) > 4000; NoCut when it does not
NoCut == << >>

Cut(log) ==
  IF Len(log) > LogCap THEN SubSeq(log, Len(log) - LogKeep + 1, Len(log)) ELSE NoCut

\* safe_pct(x) for the rational x = num / den, den > 0: clamp to [0,100], int()
safe_pct_NoUpperClamp(num, den) ==
  IF num < 0 THEN 0 ELSE num \div den

safe_pct(num, den) ==
  IF num < 0 THEN 0
  ELSE IF num > 100 * den THEN 100
  ELSE num \div den

Progress_Remaining(processed, total) == safe_pct((total - processed) * 100, total)

\* safe_pct((job.processed_pages / job.total_pages) * 100)
Progress(processed, total) == safe_pct(processed * 100, total)

\* ------------------------------------------------------ worker-thread locals
\* analysis: what get_groq_analysis returned for the current page; it is
\* NoAnalysis before the first call and from its last read to the next call.
\*   kind "null"    : json.loads gave None
\*   kind "error"   : the dict {"__error__": str(e)}
\*   kind "verdict" : a dict; is_receipt / has_stamp are "true", "false" or
\*                    "absent" (the key is missing)
NoAnalysis == [kind |-> "unset", is_receipt |-> "absent", has_stamp |-> "absent"]

Tri == {"true", "false", "absent"}

OracleOutcomes ==
  {[kind |-> "null", is_receipt |-> "absent", has_stamp |-> "absent"],
   [kind |-> "error", is_receipt |-> "absent", has_stamp |-> "absent"]}
  \cup [kind : {"verdict"}, is_receipt : Tri, has_stamp : Tri]

\* One outcome of every kind the worker tells apart, with two verdicts that
\* are filed differently: the outcomes of the runs that are about the job's
\* life cycle, in which process_job reads nothing else of the verdict.
LifeCycleOutcomes ==
  {[kind |-> "null", is_receipt |-> "absent", has_stamp |-> "absent"],
   [kind |-> "error", is_receipt |-> "absent", has_stamp |-> "absent"],
   [kind |-> "verdict", is_receipt |-> "true", has_stamp |-> "true"],
   [kind |-> "verdict", is_receipt |-> "false", has_stamp |-> "absent"]}

\* One outcome of every kind the worker tells apart: the outcomes of the runs
\* that are about what a poll reads.
PollOutcomes ==
  {[kind |-> "null", is_receipt |-> "absent", has_stamp |-> "absent"],
   [kind |-> "error", is_receipt |-> "absent", has_stamp |-> "absent"],
   [kind |-> "verdict", is_receipt |-> "true", has_stamp |-> "true"]}

\* bool(analysis.get(key, False)) for a JSON boolean or a missing key
GetBool(v) == v = "true"

W0 ==
  [ pc |-> "not_started", all_rows |-> << >>, input_pdfs |-> << >>,
    total_pages_est |-> 0, pdf_i |-> 0, pages |-> 0, page_i |-> 0,
    analysis |-> NoAnalysis, exc |-> None, cut |-> NoCut ]

\* --------------------------------------------------------------- job directory
ZipKinds == {"all", "receipts_unstamped", "receipts_stamped", "credit_notes"}

NoZip == [built |-> FALSE, entries |-> {}]

\* input[d]: pages of the PDF named d in input/, 0 = no such file
\* output:   files under output/, each [doc, dir, page]; page 0 is the moved PDF
\* csv:      classification_log.csv
FS0 ==
  [ input |-> [d \in DocIds |-> 0], output |-> {},
    csv |-> [exists |-> FALSE, rows |-> << >>],
    zips |-> [k \in ZipKinds |-> NoZip] ]

\* p.parts of a file below the output root
DirParts(dir) ==
  CASE dir = "receipts/unstamped" -> <<"receipts", "unstamped">>
    [] dir = "receipts/stamped" -> <<"receipts", "stamped">>
    [] dir = "credit_notes" -> <<"credit_notes">>
    [] OTHER -> << >>

Has(parts, seg) == \E i \in 1..Len(parts) : parts[i] = seg

is_unstamped(f) == Has(DirParts(f.dir), "receipts") /\ Has(DirParts(f.dir), "unstamped")
is_stamped(f) == Has(DirParts(f.dir), "receipts") /\ Has(DirParts(f.dir), "stamped")
is_credit(f) == Has(DirParts(f.dir), "credit_notes")

\* zip_folder / zip_filtered_output: the entries of the archive of that kind
ZipEntries(kind, output) ==
  CASE kind = "all" -> output
    [] kind = "receipts_unstamped" -> {f \in output : is_unstamped(f)}
    [] kind = "receipts_stamped" -> {f \in output : is_stamped(f)}
    [] kind = "credit_notes" -> {f \in output : is_credit(f)}

\* ------------------------------------------------------------ filing decision
\* process_job, the if/else on is_receipt and has_stamp
Destination_Swapped(is_receipt, has_stamp) ==
  IF is_receipt
  THEN IF has_stamp THEN "receipts/unstamped" ELSE "receipts/stamped"
  ELSE "credit_notes"

Destination(is_receipt, has_stamp) ==
  IF is_receipt
  THEN IF has_stamp THEN "receipts/stamped" ELSE "receipts/unstamped"
  ELSE "credit_notes"

StatusLabel(is_receipt, has_stamp) ==
  IF is_receipt
  THEN IF has_stamp THEN "STAMPED_RECEIPT" ELSE "UNSTAMPED_RECEIPT"
  ELSE "CREDIT_NOTE"

\* ------------------------------------------------------------------- requests
Idle == [kind |-> "idle", pc |-> "idle"]

\* the I/O steps of process_job that may raise
Faults == {"render", "save", "move", "csv", "zip"}

\* ---------------------------------------------------------------------- Init
H0 ==
  [ cancelLive |-> FALSE, cancelLate |-> FALSE, filedAfter |-> 0,
    errPage |-> "no", preProcessed |-> 0, preOutput |-> {}, preRows |-> 0,
    prePage |-> 0, once |-> NoJob, twice |-> NoJob,
    raisedPct |-> 0, raisedProcessed |-> 0, raisedDir |-> FS0, calls |-> << >> ]

InitWith(l) ==
  /\ lim = l
  /\ client \in BOOLEAN
  /\ pdfinfo_from_path \in BOOLEAN
  /\ JOBS = [i \in JobIds |-> 0]
  /\ job = [j \in JobSlots |-> NoJob]
  /\ w = [j \in JobSlots |-> W0]
  /\ fs = [i \in JobIds |-> FS0]
  /\ req = Idle
  /\ ncancel = 0
  /\ h = [j \in JobSlots |-> H0]
  /\ pollh = {}

Init == InitWith([jobs |-> MaxJobs, docs |-> MaxDocs, pages |-> MaxPages,
                  cancels |-> MaxCancels, oracle |-> LifeCycleOutcomes,
                  faults |-> Faults])

\* ================================================================= process_job
D(j) == fs[job[j].job_id]          \* the job directory of job j

\* the worker is at that line, and not inside job_log with a cut list to assign
At(j, label) == Created(j) /\ w[j].pc = label /\ w[j].cut = NoCut

NotWorkerVars == <<lim, client, pdfinfo_from_path, JOBS, req, ncancel>>

Fails(point) == point \in lim.faults

\* raise inside the try block: control goes to the except clause (line 334)
Raise(j, text) == w' = [w EXCEPT ![j].pc = "L335", ![j].exc = text]

\* sorted(job.input_dir.glob("*.pdf")): the PDFs present, in name order
RECURSIVE SortedFrom(_, _)
SortedFrom(input, d) ==
  IF d > MaxDocs THEN << >>
  ELSE (IF input[d] > 0 THEN <<d>> ELSE << >>) \o SortedFrom(input, d + 1)

SortedPdfs_Reversed(input) ==
  LET s == SortedFrom(input, 1)
  IN  [k \in 1..Len(s) |-> s[Len(s) + 1 - k]]

SortedPdfs(input) == SortedFrom(input, 1)

\* pages reported by pdfinfo_from_path for the files it succeeds on
RECURSIVE PagesOf(_, _, _)
PagesOf(pdfs, input, ok) ==
  IF pdfs = << >> THEN 0
  ELSE (IF Head(pdfs) \in ok THEN input[Head(pdfs)] ELSE 0)
       + PagesOf(Tail(pdfs), input, ok)

Range(s) == {s[i] : i \in 1..Len(s)}

\* ====================================================================== history
\* The worker of job j has passed the last cancellation check of a run that
\* goes to completion: it is past the loops, or in the last document past the
\* check of its last page.
AfterLoops ==
  {"L295", "L298", "L302", "L308", "L309", "L312", "L313", "L314",
   "L325", "L326", "L327", "L329", "L330", "L331", "L332", "L335"}

InPage == {"L234", "L236", "L242", "L244", "L248", "L250", "L269", "L270", "L282", "L283"}

NoMoreChecks(j) ==
  LET last == Len(w[j].input_pdfs)
  IN  \/ w[j].pc \in AfterLoops
      \/ w[j].pc = "L199" /\ w[j].pdf_i > last
      \/ w[j].pdf_i = last /\ w[j].pc \in {"L291", "L292"}
      \/ w[j].pdf_i = last /\ w[j].pc = "L226" /\ w[j].page_i > w[j].pages
      \/ w[j].pdf_i = last /\ w[j].page_i = w[j].pages /\ w[j].pc \in InPage

\* cancelLive:  cancel_requested was set while status was not yet terminal
\* cancelLate:  ... and the worker had then passed its last cancellation check
\* filedAfter:  pages filed since cancel_requested was set
\* errPage:     "handling" from the moment the oracle returns an error
\*              indicator for a page until the worker is done with that page,
\*              "handled" from then until the worker's next step, else "no"
\* pre*:        processed_pages, the output tree, len(all_rows) and the page
\*              number at the moment the oracle returned that error indicator
\* once, twice: the job record when the last but one and the last call of
\*              cancel_job on the job returned, no step of the worker having
\*              been taken since; NoJob where there is no such call
\* raised*:     progress_pct, processed_pages and the job directory at the
\*              moment an exception was raised in the try block
\* calls:       the calls of get_groq_analysis made so far, in order: the
\*              document and page submitted, and whether a verdict came back
HistoryOf(j) ==
  LET setNow == ~job[j].cancel_requested /\ job'[j].cancel_requested
                /\ job[j].status \notin Terminal
      errNow == w[j].pc = "L242" /\ w'[j].pc = "L248"
      moved == w'[j] # w[j]
      cancelled == /\ req.kind = "cancel" /\ req.pc # "respond"
                   /\ req'.pc = "respond" /\ req.j = j
      raisedNow == w[j].pc # "L335" /\ w'[j].pc = "L335"
  IN  [ cancelLive |-> h[j].cancelLive \/ setNow,
        cancelLate |-> IF setNow THEN NoMoreChecks(j) ELSE h[j].cancelLate,
        filedAfter |-> IF job[j].cancel_requested /\ w[j].pc = "L269" /\ w'[j].pc = "L270"
                       THEN h[j].filedAfter + 1 ELSE h[j].filedAfter,
        errPage |-> IF errNow THEN "handling"
                    ELSE IF ~moved THEN h[j].errPage
                    ELSE IF h[j].errPage = "handling" /\ w'[j].pc \in {"L248", "L250"}
                    THEN "handling"
                    ELSE IF h[j].errPage = "handling" THEN "handled"
                    ELSE "no",
        preProcessed |-> IF errNow THEN job[j].processed_pages ELSE h[j].preProcessed,
        preOutput |-> IF errNow THEN D(j).output ELSE h[j].preOutput,
        preRows |-> IF errNow THEN Len(w[j].all_rows) ELSE h[j].preRows,
        prePage |-> IF errNow THEN w[j].page_i ELSE h[j].prePage,
        once |-> IF moved THEN NoJob
                 ELSE IF cancelled /\ h[j].once = NoJob THEN job'[j]
                 ELSE IF cancelled /\ h[j].twice # NoJob THEN h[j].twice
                 ELSE h[j].once,
        twice |-> IF moved THEN NoJob
                  ELSE IF cancelled /\ h[j].once # NoJob THEN job'[j] ELSE h[j].twice,
        raisedPct |-> IF raisedNow THEN job[j].progress_pct ELSE h[j].raisedPct,
        raisedProcessed |-> IF raisedNow THEN job[j].processed_pages
                            ELSE h[j].raisedProcessed,
        raisedDir |-> IF raisedNow THEN D(j) ELSE h[j].raisedDir,
        calls |-> IF w[j].pc = "L242" /\ w'[j].pc # "L242"
                  THEN Append(h[j].calls,
                              [doc |-> w[j].input_pdfs[w[j].pdf_i], page |-> w[j].page_i,
                               ok |-> w'[j].analysis.kind = "verdict"])
                  ELSE h[j].calls ]

\* get_job, lines 419-424: the job fields the dict literal reads, in order
PollFields ==
  <<"status", "progress_pct", "message", "error", "processed_pages", "total_pages">>

\* what one observation of the job shows of the fields a poll reports
View(jb) ==
  [ status |-> jb.status, progress_pct |-> jb.progress_pct, message |-> jb.message,
    error |-> jb.error, processed_pages |-> jb.processed_pages,
    total_pages |-> jb.total_pages, downloads |-> (jb.status = "done") ]

\* the fields of the response a poll at that position has read
FieldsRead(r) ==
  IF r.pc = "L406" THEN {}
  ELSE IF r.pc = "L415" THEN {"downloads"}
  ELSE IF r.pc = "L419" THEN {"downloads"} \cup {PollFields[k] : k \in 1..(r.i - 1)}
  ELSE {"downloads"} \cup Range(PollFields)

\* pollh: the states of the polled job, since the poll looked it up, that
\* agree with every field the poll has read so far
History ==
  /\ h' = [j \in JobSlots |-> IF Created(j) THEN HistoryOf(j) ELSE h[j]]
  /\ pollh' =
       IF req'.kind = "poll" /\ "j" \in DOMAIN req'
       THEN {v \in pollh \cup {View(job'[req'.j])} :
               \A f \in FieldsRead(req') : v[f] = req'.body[f]}
       ELSE {}

\* ====================================================================== actions
\* line 174: job.status = "running"
SetRunning(j) ==
  /\ At(j, "L174")
  /\ job' = [job EXCEPT ![j].status = "running"]
  /\ w' = [w EXCEPT ![j].pc = "L175"]
  /\ UNCHANGED <<fs, NotWorkerVars>>
  /\ History

\* line 175: job.message = "Starting..."
SetStartingMessage(j) ==
  /\ At(j, "L175")
  /\ job' = [job EXCEPT ![j].message = Msg("Starting")]
  /\ w' = [w EXCEPT ![j].pc = "L176"]
  /\ UNCHANGED <<fs, NotWorkerVars>>
  /\ History

\* line 176: job.progress_pct = 1
SetStartProgress(j) ==
  /\ At(j, "L176")
  /\ job' = [job EXCEPT ![j].progress_pct = StartPct]
  /\ w' = [w EXCEPT ![j].pc = "L177"]
  /\ UNCHANGED <<fs, NotWorkerVars>>
  /\ History

\* lines 177-182: job_log(started); all_rows = []; input_pdfs = sorted(glob);
\* raise RuntimeError when there is none
ListInputs(j) ==
  /\ At(j, "L177")
  /\ job' = [job EXCEPT ![j].log = job_log(@, LogLine("started", 0, 0, ""))]
  /\ LET pdfs == SortedPdfs(D(j).input)
     IN  IF pdfs = << >>
         THEN w' = [w EXCEPT ![j].cut = Cut(job'[j].log), ![j].pc = "L335", ![j].all_rows = << >>,
                             ![j].exc = "No PDFs found in upload."]
         ELSE w' = [w EXCEPT ![j].cut = Cut(job'[j].log), ![j].pc = "L185", ![j].all_rows = << >>,
                             ![j].input_pdfs = pdfs]
  /\ UNCHANGED <<fs, NotWorkerVars>>
  /\ History

\* lines 185-197: the page pre-count (pdfinfo_from_path may be missing, and may
\* fail on any file: those files count 0), then job.total_pages = the estimate
PreCount(j) ==
  /\ At(j, "L185")
  /\ \E ok \in SUBSET Range(w[j].input_pdfs) :
       /\ pdfinfo_from_path \/ ok = {}
       /\ LET est == PagesOf(w[j].input_pdfs, D(j).input, ok)
          IN  /\ job' = [job EXCEPT ![j].total_pages = est]
              /\ w' = [w EXCEPT ![j].pc = "L199", ![j].total_pages_est = est,
                                ![j].pdf_i = 1]
  /\ UNCHANGED <<fs, NotWorkerVars>>
  /\ History

\* lines 199-201: next document of the for loop; the loop ends after the last
\* one; otherwise if job.cancel_requested: job.status = "cancelled"
NextDocument(j) ==
  /\ At(j, "L199")
  /\ IF w[j].pdf_i > Len(w[j].input_pdfs)
     THEN /\ w' = [w EXCEPT ![j].pc = "L295"]
          /\ UNCHANGED job
     ELSE IF job[j].cancel_requested
     THEN /\ job' = [job EXCEPT ![j].status = "cancelled"]
          /\ w' = [w EXCEPT ![j].pc = "L202"]
     ELSE /\ w' = [w EXCEPT ![j].pc = "L206"]
          /\ UNCHANGED job
  /\ UNCHANGED <<fs, NotWorkerVars>>
  /\ History

\* lines 202 and 229: job.message = "Cancelled"
SetCancelledMessage_ThenGoOn(j) ==
  /\ At(j, "L202") \/ At(j, "L229")
  /\ job' = [job EXCEPT ![j].message = Msg("Cancelled")]
  /\ w' = [w EXCEPT ![j].pc = IF w[j].pc = "L202" THEN "L206" ELSE "L234"]
  /\ UNCHANGED <<fs, NotWorkerVars>>
  /\ History

SetCancelledMessage(j) ==
  /\ At(j, "L202") \/ At(j, "L229")
  /\ job' = [job EXCEPT ![j].message = Msg("Cancelled")]
  /\ w' = [w EXCEPT ![j].pc = IF w[j].pc = "L202" THEN "L203" ELSE "L230"]
  /\ UNCHANGED <<fs, NotWorkerVars>>
  /\ History

\* lines 203-204 and 230-231: job_log(cancel); return
LogCancelAndReturn_NoReturn(j) ==
  /\ At(j, "L203") \/ At(j, "L230")
  /\ job' = [job EXCEPT ![j].log =
               job_log(@, LogLine(IF w[j].pc = "L203" THEN "cancel" ELSE "cancel mid-file",
                                  0, 0, ""))]
  /\ w' = [w EXCEPT ![j].cut = Cut(job'[j].log),
                    ![j].pc = IF w[j].pc = "L203" THEN "L206" ELSE "L234"]
  /\ UNCHANGED <<fs, NotWorkerVars>>
  /\ History

LogCancelAndReturn_Break(j) ==
  /\ At(j, "L203") \/ At(j, "L230")
  /\ job' = [job EXCEPT ![j].log =
               job_log(@, LogLine(IF w[j].pc = "L203" THEN "cancel" ELSE "cancel mid-file",
                                  0, 0, ""))]
  /\ w' = [w EXCEPT ![j].cut = Cut(job'[j].log),
                    ![j].pc = IF w[j].pc = "L203" THEN "L295" ELSE "L291"]
  /\ UNCHANGED <<fs, NotWorkerVars>>
  /\ History

LogCancelAndReturn(j) ==
  /\ At(j, "L203") \/ At(j, "L230")
  /\ job' = [job EXCEPT ![j].log =
               job_log(@, LogLine(IF w[j].pc = "L203" THEN "cancel" ELSE "cancel mid-file",
                                  0, 0, ""))]
  /\ w' = [w EXCEPT ![j].cut = Cut(job'[j].log), ![j].pc = "returned"]
  /\ UNCHANGED <<fs, NotWorkerVars>>
  /\ History

\* lines 206-217: job_log(Processing); the three output folders are made
\* (empty folders hold no file)
LogProcessing(j) ==
  /\ At(j, "L206")
  /\ job' = [job EXCEPT ![j].log =
               job_log(@, LogLine("Processing", w[j].input_pdfs[w[j].pdf_i], 0, ""))]
  /\ w' = [w EXCEPT ![j].cut = Cut(job'[j].log), ![j].pc = "L220"]
  /\ UNCHANGED <<fs, NotWorkerVars>>
  /\ History

\* lines 220-224: pages = convert_from_path(...), which may raise and does
\* raise on a missing file; if job.total_pages == 0: job.total_pages += len(pages)
Render(j) ==
  /\ At(j, "L220")
  /\ LET d == w[j].input_pdfs[w[j].pdf_i]
         n == D(j).input[d]
     IN  \/ /\ Fails("render") \/ n = 0
            /\ Raise(j, "render failed")
            /\ UNCHANGED job
         \/ /\ n > 0
            /\ w' = [w EXCEPT ![j].pc = "L226", ![j].pages = n, ![j].page_i = 1]
            /\ job' = [job EXCEPT ![j].total_pages = IF @ = 0 THEN @ + n ELSE @]
  /\ UNCHANGED <<fs, NotWorkerVars>>
  /\ History

\* lines 226-228: next page of the for loop; the loop ends after the last one;
\* otherwise if job.cancel_requested: job.status = "cancelled"
NextPage_NoCancelCheck(j) ==
  /\ At(j, "L226")
  /\ IF w[j].page_i > w[j].pages
     THEN w' = [w EXCEPT ![j].pc = "L291"]
     ELSE w' = [w EXCEPT ![j].pc = "L234"]
  /\ UNCHANGED <<job, fs, NotWorkerVars>>
  /\ History

NextPage(j) ==
  /\ At(j, "L226")
  /\ IF w[j].page_i > w[j].pages
     THEN /\ w' = [w EXCEPT ![j].pc = "L291"]
          /\ UNCHANGED job
     ELSE IF job[j].cancel_requested
     THEN /\ job' = [job EXCEPT ![j].status = "cancelled"]
          /\ w' = [w EXCEPT ![j].pc = "L229"]
     ELSE /\ w' = [w EXCEPT ![j].pc = "L234"]
          /\ UNCHANGED job
  /\ UNCHANGED <<fs, NotWorkerVars>>
  /\ History

\* lines 233-234: job.message = "<pdf>: page <n>/<len(pages)>"
SetPageMessage(j) ==
  /\ At(j, "L234")
  /\ job' = [job EXCEPT ![j].message =
               PageMsg(w[j].input_pdfs[w[j].pdf_i], w[j].page_i, w[j].pages)]
  /\ w' = [w EXCEPT ![j].pc = "L236"]
  /\ UNCHANGED <<fs, NotWorkerVars>>
  /\ History

\* lines 236-240: if job.total_pages > 0: job.progress_pct = safe_pct(...);
\* the page is encoded to PNG in memory
SetProgressBeforePage(j) ==
  /\ At(j, "L236")
  /\ job' = [job EXCEPT ![j].progress_pct =
               IF job[j].total_pages > 0
               THEN Progress(job[j].processed_pages, job[j].total_pages) ELSE @]
  /\ w' = [w EXCEPT ![j].pc = "L242"]
  /\ UNCHANGED <<fs, NotWorkerVars>>
  /\ History

\* lines 242-247: analysis = get_groq_analysis(...): the blocking oracle call
\* returns None, an error dict or a verdict dict
OracleCall(j) ==
  /\ At(j, "L242")
  /\ \E a \in lim.oracle :
       w' = [w EXCEPT ![j].analysis = a,
                      ![j].pc = CASE a.kind = "null" -> "L244"
                                  [] a.kind = "error" -> "L248"
                                  [] OTHER -> "L269"]
  /\ UNCHANGED <<job, fs, NotWorkerVars>>
  /\ History

\* lines 244-245: job_log(skipped); continue
SkipNullPage(j) ==
  /\ At(j, "L244")
  /\ job' = [job EXCEPT ![j].log = job_log(@, LogLine("skipped", 0, w[j].page_i, ""))]
  /\ w' = [w EXCEPT ![j].cut = Cut(job'[j].log),
                    ![j].pc = "L226", ![j].page_i = @ + 1, ![j].analysis = NoAnalysis]
  /\ UNCHANGED <<fs, NotWorkerVars>>
  /\ History

\* line 248: job_log(Groq error)
LogOracleError(j) ==
  /\ At(j, "L248")
  /\ job' = [job EXCEPT ![j].log = job_log(@, LogLine("Groq error", 0, w[j].page_i, ""))]
  /\ w' = [w EXCEPT ![j].cut = Cut(job'[j].log), ![j].pc = "L250", ![j].analysis = NoAnalysis]
  /\ UNCHANGED <<fs, NotWorkerVars>>
  /\ History

\* lines 250-251: job.processed_pages += 1; continue
CountErrorPage_NotCounted(j) ==
  /\ At(j, "L250")
  /\ w' = [w EXCEPT ![j].pc = "L226", ![j].page_i = @ + 1]
  /\ UNCHANGED <<job, fs, NotWorkerVars>>
  /\ History

CountErrorPage(j) ==
  /\ At(j, "L250")
  /\ job' = [job EXCEPT ![j].processed_pages = @ + 1]
  /\ w' = [w EXCEPT ![j].pc = "L226", ![j].page_i = @ + 1]
  /\ UNCHANGED <<fs, NotWorkerVars>>
  /\ History

\* The file process_job writes for the page, and the row it appends for it
\* (lines 253-280); stamp_details and document_data are copied from the
\* verdict unread and are left out
PageFile(j) ==
  [ doc |-> w[j].input_pdfs[w[j].pdf_i],
    dir |-> Destination(GetBool(w[j].analysis.is_receipt), GetBool(w[j].analysis.has_stamp)),
    page |-> w[j].page_i ]

PageRow(j) ==
  [ source_pdf |-> w[j].input_pdfs[w[j].pdf_i],
    page |-> w[j].page_i,
    status |-> StatusLabel(GetBool(w[j].analysis.is_receipt), GetBool(w[j].analysis.has_stamp)),
    is_receipt |-> GetBool(w[j].analysis.is_receipt),
    has_stamp |-> GetBool(w[j].analysis.has_stamp) ]

\* lines 253-269: the filing decision and page.save(target_path), which may raise
FilePage(j) ==
  /\ At(j, "L269")
  /\ \/ /\ Fails("save")
        /\ Raise(j, "save failed")
        /\ UNCHANGED fs
     \/ /\ fs' = [fs EXCEPT ![job[j].job_id].output = @ \cup {PageFile(j)}]
        /\ w' = [w EXCEPT ![j].pc = "L270"]
  /\ UNCHANGED <<job, NotWorkerVars>>
  /\ History

\* lines 270-280: job_log(Filed); all_rows.append(row)
LogFiledAndAppendRow(j) ==
  /\ At(j, "L270")
  /\ job' = [job EXCEPT ![j].log =
               job_log(@, LogLine("Filed", 0, w[j].page_i, PageRow(j).status))]
  /\ w' = [w EXCEPT ![j].cut = Cut(job'[j].log),
                    ![j].pc = "L282", ![j].all_rows = Append(@, PageRow(j)),
                    ![j].analysis = NoAnalysis]
  /\ UNCHANGED <<fs, NotWorkerVars>>
  /\ History

\* line 282: job.processed_pages += 1
CountFiledPage(j) ==
  /\ At(j, "L282")
  /\ job' = [job EXCEPT ![j].processed_pages = @ + 1]
  /\ w' = [w EXCEPT ![j].pc = "L283"]
  /\ UNCHANGED <<fs, NotWorkerVars>>
  /\ History

\* lines 283-288: if job.total_pages > 0: job.progress_pct = safe_pct(...);
\* time.sleep(sleep_sec); next iteration
SetProgressAfterPage(j) ==
  /\ At(j, "L283")
  /\ job' = [job EXCEPT ![j].progress_pct =
               IF job[j].total_pages > 0
               THEN Progress(job[j].processed_pages, job[j].total_pages) ELSE @]
  /\ w' = [w EXCEPT ![j].pc = "L226", ![j].page_i = @ + 1]
  /\ UNCHANGED <<fs, NotWorkerVars>>
  /\ History

\* line 291: shutil.move(pdf, output/<stem>/<name>), which may raise and does
\* raise on a missing file
MoveOriginal(j) ==
  /\ At(j, "L291")
  /\ LET d == w[j].input_pdfs[w[j].pdf_i]
     IN  \/ /\ Fails("move") \/ D(j).input[d] = 0
            /\ Raise(j, "move failed")
            /\ UNCHANGED fs
         \/ /\ D(j).input[d] > 0
            /\ fs' = [fs EXCEPT ![job[j].job_id].input[d] = 0,
                                ![job[j].job_id].output =
                                    @ \cup {[doc |-> d, dir |-> "", page |-> 0]}]
            /\ w' = [w EXCEPT ![j].pc = "L292"]
  /\ UNCHANGED <<job, NotWorkerVars>>
  /\ History

\* line 292: job_log(Completed); next document
LogCompleted(j) ==
  /\ At(j, "L292")
  /\ job' = [job EXCEPT ![j].log =
               job_log(@, LogLine("Completed", w[j].input_pdfs[w[j].pdf_i], 0, ""))]
  /\ w' = [w EXCEPT ![j].cut = Cut(job'[j].log), ![j].pc = "L199", ![j].pdf_i = @ + 1]
  /\ UNCHANGED <<fs, NotWorkerVars>>
  /\ History

\* lines 295-296: if all_rows: job.csv_path = job_dir / "classification_log.csv"
SetCsvPath_Always(j) ==
  /\ At(j, "L295")
  /\ job' = [job EXCEPT ![j].csv_path = "classification_log.csv"]
  /\ w' = [w EXCEPT ![j].pc = "L298"]
  /\ UNCHANGED <<fs, NotWorkerVars>>
  /\ History

SetCsvPath(j) ==
  /\ At(j, "L295")
  /\ IF w[j].all_rows # << >>
     THEN /\ job' = [job EXCEPT ![j].csv_path = "classification_log.csv"]
          /\ w' = [w EXCEPT ![j].pc = "L298"]
     ELSE /\ w' = [w EXCEPT ![j].pc = "L308"]
          /\ UNCHANGED job
  /\ UNCHANGED <<fs, NotWorkerVars>>
  /\ History

\* lines 297-301: the header row and all_rows are written, which may raise
WriteCsv(j) ==
  /\ At(j, "L298")
  /\ \/ /\ Fails("csv")
        /\ Raise(j, "csv failed")
        /\ UNCHANGED fs
     \/ /\ fs' = [fs EXCEPT ![job[j].job_id].csv =
                    [exists |-> TRUE, rows |-> w[j].all_rows]]
        /\ w' = [w EXCEPT ![j].pc = "L302"]
  /\ UNCHANGED <<job, NotWorkerVars>>
  /\ History

\* line 302: job_log(CSV saved)
LogCsvSaved(j) ==
  /\ At(j, "L302")
  /\ job' = [job EXCEPT ![j].log = job_log(@, LogLine("CSV saved", 0, 0, ""))]
  /\ w' = [w EXCEPT ![j].cut = Cut(job'[j].log), ![j].pc = "L308"]
  /\ UNCHANGED <<fs, NotWorkerVars>>
  /\ History

\* lines 305-308: job.zip_all = zips_dir / "all_output.zip"
SetZipAllPath(j) ==
  /\ At(j, "L308")
  /\ job' = [job EXCEPT ![j].zip_all = "zips/all_output.zip"]
  /\ w' = [w EXCEPT ![j].pc = "L309"]
  /\ UNCHANGED <<fs, NotWorkerVars>>
  /\ History

\* line 309 (zip_folder) and lines 325-327 (zip_filtered_output): the archive
\* of that kind is written from the output tree, which may raise
BuildZip(j) ==
  /\ \E step \in {<<"L309", "all", "L312">>,
                  <<"L325", "receipts_unstamped", "L326">>,
                  <<"L326", "receipts_stamped", "L327">>,
                  <<"L327", "credit_notes", "L329">>} :
       /\ At(j, step[1])
       /\ \/ /\ Fails("zip")
             /\ Raise(j, "zip failed")
             /\ UNCHANGED fs
          \/ /\ fs' = [fs EXCEPT ![job[j].job_id].zips[step[2]] =
                         [built |-> TRUE, entries |-> ZipEntries(step[2], D(j).output)]]
             /\ w' = [w EXCEPT ![j].pc = step[3]]
  /\ UNCHANGED <<job, NotWorkerVars>>
  /\ History

\* lines 312-314: the three filtered archive paths
SetFilteredZipPaths(j) ==
  /\ \/ /\ At(j, "L312")
        /\ job' = [job EXCEPT ![j].zip_receipts_unstamped = "zips/receipts_unstamped.zip"]
        /\ w' = [w EXCEPT ![j].pc = "L313"]
     \/ /\ At(j, "L313")
        /\ job' = [job EXCEPT ![j].zip_receipts_stamped = "zips/receipts_stamped.zip"]
        /\ w' = [w EXCEPT ![j].pc = "L314"]
     \/ /\ At(j, "L314")
        /\ job' = [job EXCEPT ![j].zip_credit_notes = "zips/credit_notes.zip"]
        /\ w' = [w EXCEPT ![j].pc = "L325"]
  /\ UNCHANGED <<fs, NotWorkerVars>>
  /\ History

\* line 329: job.progress_pct = 100
SetDoneProgress(j) ==
  /\ At(j, "L329")
  /\ job' = [job EXCEPT ![j].progress_pct = DonePct]
  /\ w' = [w EXCEPT ![j].pc = "L330"]
  /\ UNCHANGED <<fs, NotWorkerVars>>
  /\ History

\* line 330: job.status = "done"
SetDone(j) ==
  /\ At(j, "L330")
  /\ job' = [job EXCEPT ![j].status = "done"]
  /\ w' = [w EXCEPT ![j].pc = "L331"]
  /\ UNCHANGED <<fs, NotWorkerVars>>
  /\ History

\* line 331: job.message = "Complete"
SetCompleteMessage(j) ==
  /\ At(j, "L331")
  /\ job' = [job EXCEPT ![j].message = Msg("Complete")]
  /\ w' = [w EXCEPT ![j].pc = "L332"]
  /\ UNCHANGED <<fs, NotWorkerVars>>
  /\ History

\* line 332: job_log(finished); the thread ends
LogFinished(j) ==
  /\ At(j, "L332")
  /\ job' = [job EXCEPT ![j].log = job_log(@, LogLine("finished", 0, 0, ""))]
  /\ w' = [w EXCEPT ![j].cut = Cut(job'[j].log), ![j].pc = "returned"]
  /\ UNCHANGED <<fs, NotWorkerVars>>
  /\ History

SetError_KeepStatus(j) ==
  /\ At(j, "L335")
  /\ w' = [w EXCEPT ![j].pc = "L336"]
  /\ UNCHANGED <<job, fs, NotWorkerVars>>
  /\ History

\* lines 334-335, the except clause: job.status = "error"
SetError(j) ==
  /\ At(j, "L335")
  /\ job' = [job EXCEPT ![j].status = "error"]
  /\ w' = [w EXCEPT ![j].pc = "L336"]
  /\ UNCHANGED <<fs, NotWorkerVars>>
  /\ History

\* line 336: job.error = str(e)
SetErrorText(j) ==
  /\ At(j, "L336")
  /\ job' = [job EXCEPT ![j].error = w[j].exc]
  /\ w' = [w EXCEPT ![j].pc = "L337"]
  /\ UNCHANGED <<fs, NotWorkerVars>>
  /\ History

\* line 337: job.message = "Error"
SetErrorMessage(j) ==
  /\ At(j, "L337")
  /\ job' = [job EXCEPT ![j].message = Msg("Error")]
  /\ w' = [w EXCEPT ![j].pc = "L338"]
  /\ UNCHANGED <<fs, NotWorkerVars>>
  /\ History

\* line 338: job_log(Job error)
LogError(j) ==
  /\ At(j, "L338")
  /\ job' = [job EXCEPT ![j].log = job_log(@, LogLine("Job error", 0, 0, job[j].error))]
  /\ w' = [w EXCEPT ![j].cut = Cut(job'[j].log), ![j].pc = "L339"]
  /\ UNCHANGED <<fs, NotWorkerVars>>
  /\ History

\* line 339: job.progress_pct = safe_pct(job.progress_pct); the thread ends
ClampProgressOnError(j) ==
  /\ At(j, "L339")
  /\ job' = [job EXCEPT ![j].progress_pct = safe_pct(@, 1)]
  /\ w' = [w EXCEPT ![j].pc = "returned"]
  /\ UNCHANGED <<fs, NotWorkerVars>>
  /\ History

\* job_log, line 80: job.log = <the list built from job.log[-2000:]>
AssignCutLog(j) ==
  /\ Created(j) /\ w[j].cut # NoCut
  /\ job' = [job EXCEPT ![j].log = w[j].cut]
  /\ w' = [w EXCEPT ![j].cut = NoCut]
  /\ UNCHANGED <<fs, NotWorkerVars>>
  /\ History

\* process_job where no cancel request is ever made: cancel_requested stays
\* False and the two steps that follow a cancellation check are never taken
WorkerUncancelled(j) ==
  \/ SetRunning(j) \/ SetStartingMessage(j) \/ SetStartProgress(j)
  \/ ListInputs(j) \/ PreCount(j)
  \/ NextDocument(j)
  \/ LogProcessing(j) \/ Render(j)
  \/ NextPage(j) \/ SetPageMessage(j) \/ SetProgressBeforePage(j)
  \/ OracleCall(j) \/ SkipNullPage(j) \/ LogOracleError(j) \/ CountErrorPage(j)
  \/ FilePage(j) \/ LogFiledAndAppendRow(j) \/ CountFiledPage(j)
  \/ SetProgressAfterPage(j) \/ MoveOriginal(j) \/ LogCompleted(j)
  \/ SetCsvPath(j) \/ WriteCsv(j) \/ LogCsvSaved(j)
  \/ SetZipAllPath(j) \/ BuildZip(j) \/ SetFilteredZipPaths(j)
  \/ SetDoneProgress(j) \/ SetDone(j) \/ SetCompleteMessage(j) \/ LogFinished(j)
  \/ SetError(j) \/ SetErrorText(j) \/ SetErrorMessage(j) \/ LogError(j)
  \/ ClampProgressOnError(j)

Worker(j) ==
  \/ WorkerUncancelled(j)
  \/ SetCancelledMessage(j) \/ LogCancelAndReturn(j)

\* ============================================================ request handlers
NotRequestVars == <<lim, client, pdfinfo_from_path, w, fs>>

Respond(kind, code, body) ==
  [kind |-> kind, pc |-> "respond", code |-> code, body |-> body]

\* uuid4().hex[:12]: a value no earlier job of this process got
FreshIds == {i \in JobIds : \A j \in JobSlots : job[j].job_id # i}

FreeSlots == {j \in JobSlots : ~Created(j)}

RECURSIVE SumPages(_, _)
SumPages(u, d) == IF d > MaxDocs THEN 0 ELSE u[d].pages + SumPages(u, d + 1)

\* an upload: for every file name, its pages (0: no file of that name is sent)
\* and whether the name ends in ".pdf"; at least one file is sent
Uploads ==
  {u \in [DocIds -> [pages : 0..lim.pages, is_pdf : BOOLEAN]] :
     /\ \E d \in DocIds : u[d].pages > 0
     /\ \A d \in DocIds : d > lim.docs => u[d].pages = 0
     /\ SumPages(u, 1) <= lim.pages}

\* start_process, lines 363-387: HTTP 500 without a client; otherwise a new id,
\* the job directories, the uploads whose name ends in ".pdf" saved to input/,
\* and job = JobState(...)
StartProcess(ids) ==
  /\ req = Idle
  /\ Cardinality(JobSlots \ FreeSlots) < lim.jobs
  /\ IF ~client
     THEN /\ req' = Respond("submit", 500, "GROQ_API_KEY not set on server.")
          /\ UNCHANGED <<job, fs>>
     ELSE \E id \in ids, u \in Uploads :
            LET j == CHOOSE k \in FreeSlots : \A m \in FreeSlots : k <= m
            IN  /\ job' = [job EXCEPT ![j] = JobState(id)]
                /\ fs' = [fs EXCEPT ![id].input =
                            [d \in DocIds |->
                               IF u[d].pages > 0 /\ u[d].is_pdf THEN u[d].pages ELSE @[d]]]
                /\ req' = [kind |-> "submit", pc |-> "L389", j |-> j, id |-> id]
  /\ UNCHANGED <<lim, client, pdfinfo_from_path, JOBS, w, ncancel>>
  /\ History

SubmitBegin == StartProcess(FreshIds)

\* uuid4().hex[:12] taken as it is computed: any value, whatever the store holds
SubmitAnyId == StartProcess(JobIds)

\* lines 389-390: with LOCK: JOBS[job_id] = job
SubmitRegister_NotStored ==
  /\ req.kind = "submit" /\ req.pc = "L389"
  /\ req' = [req EXCEPT !.pc = "L392"]
  /\ UNCHANGED <<JOBS, job, ncancel, NotRequestVars>>
  /\ History

SubmitRegister ==
  /\ req.kind = "submit" /\ req.pc = "L389"
  /\ JOBS' = [JOBS EXCEPT ![req.id] = req.j]
  /\ req' = [req EXCEPT !.pc = "L392"]
  /\ UNCHANGED <<job, ncancel, NotRequestVars>>
  /\ History

SubmitStartThread_NotStarted ==
  /\ req.kind = "submit" /\ req.pc = "L392"
  /\ req' = Respond("submit", 200, req.id)
  /\ UNCHANGED <<lim, client, pdfinfo_from_path, JOBS, job, w, fs, ncancel>>
  /\ History

\* lines 392-395: the worker thread is started; return {"job_id": job_id}
SubmitStartThread ==
  /\ req.kind = "submit" /\ req.pc = "L392"
  /\ w' = [w EXCEPT ![req.j].pc = "L174"]
  /\ req' = Respond("submit", 200, req.id)
  /\ UNCHANGED <<lim, client, pdfinfo_from_path, JOBS, job, fs, ncancel>>
  /\ History

\* ---------------------------------------------------------------------- get_job
NoResponse ==
  [ job_id |-> 0, status |-> "", progress_pct |-> 0, message |-> Msg(""),
    error |-> None, processed_pages |-> 0, total_pages |-> 0,
    downloads |-> FALSE, log_tail |-> << >> ]

\* job.log[-40:]
Last(log, n) == IF Len(log) <= n THEN log ELSE SubSeq(log, Len(log) - n + 1, Len(log))

\* lines 400-403: with LOCK: job = JOBS.get(job_id); 404 when there is none
PollLookup ==
  /\ req = Idle
  /\ \E id \in JobIds :
       IF JOBS[id] = 0
       THEN req' = Respond("poll", 404, "Job not found") @@ [id |-> id]
       ELSE req' = [kind |-> "poll", pc |-> "L406", j |-> JOBS[id], i |-> 0,
                    body |-> NoResponse]
  /\ UNCHANGED <<JOBS, job, ncancel, NotRequestVars>>
  /\ History

\* lines 405-413: downloads is the dict of links if job.status == "done", else None
PollDownloads ==
  /\ req.kind = "poll" /\ req.pc = "L406"
  /\ req' = [req EXCEPT !.pc = "L415", !.body.downloads = (job[req.j].status = "done")]
  /\ UNCHANGED <<JOBS, job, ncancel, NotRequestVars>>
  /\ History

\* lines 415-418: log_tail = job.log[-40:]; the dict literal starts with job_id
PollLogTail ==
  /\ req.kind = "poll" /\ req.pc = "L415"
  /\ req' = [req EXCEPT !.pc = "L419", !.i = 1,
                        !.body.log_tail = Last(job[req.j].log, LogTail),
                        !.body.job_id = job[req.j].job_id]
  /\ UNCHANGED <<JOBS, job, ncancel, NotRequestVars>>
  /\ History

\* lines 419-424: the dict literal reads one field of the job after the other
PollReadField ==
  /\ req.kind = "poll" /\ req.pc = "L419"
  /\ LET f == PollFields[req.i]
         body == [req.body EXCEPT ![f] = job[req.j][f]]
     IN  IF req.i < Len(PollFields)
         THEN req' = [req EXCEPT !.i = @ + 1, !.body = body]
         ELSE req' = Respond("poll", 200, body) @@ [j |-> req.j]
  /\ UNCHANGED <<JOBS, job, ncancel, NotRequestVars>>
  /\ History

\* ------------------------------------------------------------------- cancel_job
\* lines 432-437: with LOCK: job = JOBS.get(job_id); 404 when there is none;
\* job.cancel_requested = True.  (JOBS is written by the request thread only,
\* so the lookup and the write that follows it are one step.)
CancelSetFlag_Toggles ==
  /\ req = Idle
  /\ ncancel < lim.cancels
  /\ ncancel' = ncancel + 1
  /\ \E id \in JobIds :
       IF JOBS[id] = 0
       THEN /\ req' = Respond("cancel", 404, "Job not found") @@ [id |-> id]
            /\ UNCHANGED job
       ELSE /\ job' = [job EXCEPT ![JOBS[id]].cancel_requested = ~@]
            /\ req' = [kind |-> "cancel", pc |-> "L438", j |-> JOBS[id]]
  /\ UNCHANGED <<JOBS, NotRequestVars>>
  /\ History

CancelSetFlag_SetsStatus ==
  /\ req = Idle
  /\ ncancel < lim.cancels
  /\ ncancel' = ncancel + 1
  /\ \E id \in JobIds :
       IF JOBS[id] = 0
       THEN /\ req' = Respond("cancel", 404, "Job not found") @@ [id |-> id]
            /\ UNCHANGED job
       ELSE /\ job' = [job EXCEPT ![JOBS[id]].cancel_requested = TRUE,
                                  ![JOBS[id]].status = "cancelled"]
            /\ req' = [kind |-> "cancel", pc |-> "L438", j |-> JOBS[id]]
  /\ UNCHANGED <<JOBS, NotRequestVars>>
  /\ History

CancelSetFlag ==
  /\ req = Idle
  /\ ncancel < lim.cancels
  /\ ncancel' = ncancel + 1
  /\ \E id \in JobIds :
       IF JOBS[id] = 0
       THEN /\ req' = Respond("cancel", 404, "Job not found") @@ [id |-> id]
            /\ UNCHANGED job
       ELSE /\ job' = [job EXCEPT ![JOBS[id]].cancel_requested = TRUE]
            /\ req' = [kind |-> "cancel", pc |-> "L438", j |-> JOBS[id]]
  /\ UNCHANGED <<JOBS, NotRequestVars>>
  /\ History

\* lines 438-439: job_log(Cancel requested by user); return {"ok": True}
CancelLog ==
  /\ req.kind = "cancel" /\ req.pc = "L438"
  /\ job' = [job EXCEPT ![req.j].log = job_log(@, LogLine("Cancel requested", 0, 0, ""))]
  /\ IF Cut(job'[req.j].log) = NoCut
     THEN req' = Respond("cancel", 200, "ok") @@ [j |-> req.j]
     ELSE req' = [req EXCEPT !.pc = "L80"] @@ [cut |-> Cut(job'[req.j].log)]
  /\ UNCHANGED <<JOBS, ncancel, NotRequestVars>>
  /\ History

\* job_log, line 80, then line 439: job.log = <the list built>; return {"ok": True}
CancelAssignCutLog ==
  /\ req.kind = "cancel" /\ req.pc = "L80"
  /\ job' = [job EXCEPT ![req.j].log = req.cut]
  /\ req' = Respond("cancel", 200, "ok") @@ [j |-> req.j]
  /\ UNCHANGED <<JOBS, ncancel, NotRequestVars>>
  /\ History

\* --------------------------------------------------------------------- download
\* the kind path parameter: the five kinds download knows and one it does not
Kinds == {"all", "receipts_unstamped", "receipts_stamped", "credit_notes", "csv", "other"}

\* the job field download reads for a kind (lines 451-465)
PathField ==
  [ all |-> "zip_all", receipts_unstamped |-> "zip_receipts_unstamped",
    receipts_stamped |-> "zip_receipts_stamped", credit_notes |-> "zip_credit_notes",
    csv |-> "csv_path" ]

\* path.exists() and the file FileResponse sends, for a path process_job assigns
FileAt(dir, path) ==
  IF path = "classification_log.csv"
  THEN [exists |-> dir.csv.exists, content |-> dir.csv.rows]
  ELSE LET k == CHOOSE z \in ZipKinds : path = "zips/" \o
                    (IF z = "all" THEN "all_output" ELSE z) \o ".zip"
       IN  [exists |-> dir.zips[k].built, content |-> dir.zips[k].entries]

\* lines 444-447: with LOCK: job = JOBS.get(job_id); 404 when there is none
DownloadLookup ==
  /\ req = Idle
  /\ \E id \in JobIds, kind \in Kinds :
       IF JOBS[id] = 0
       THEN req' = Respond("download", 404, "Job not found") @@ [id |-> id, asked |-> kind]
       ELSE req' = [kind |-> "download", pc |-> "L448", j |-> JOBS[id], id |-> id,
                    asked |-> kind, seen |-> "", path |-> None]
  /\ UNCHANGED <<JOBS, job, ncancel, NotRequestVars>>
  /\ History

\* lines 448-449: if job.status != "done": 400
DownloadCheckStatus_NoCheck ==
  /\ req.kind = "download" /\ req.pc = "L448"
  /\ req' = [req EXCEPT !.pc = "L451", !.seen = job[req.j].status]
  /\ UNCHANGED <<JOBS, job, ncancel, NotRequestVars>>
  /\ History

DownloadCheckStatus ==
  /\ req.kind = "download" /\ req.pc = "L448"
  /\ IF job[req.j].status # "done"
     THEN req' = Respond("download", 400, "Job not completed yet")
                   @@ [j |-> req.j, id |-> req.id, asked |-> req.asked,
                       seen |-> job[req.j].status]
     ELSE req' = [req EXCEPT !.pc = "L451", !.seen = job[req.j].status]
  /\ UNCHANGED <<JOBS, job, ncancel, NotRequestVars>>
  /\ History

\* lines 451-467: path = the job field of that kind; 404 for an unknown kind
DownloadReadPath ==
  /\ req.kind = "download" /\ req.pc = "L451"
  /\ IF req.asked \in DOMAIN PathField
     THEN req' = [req EXCEPT !.pc = "L469", !.path = job[req.j][PathField[req.asked]]]
     ELSE req' = Respond("download", 404, "Unknown download type")
                   @@ [j |-> req.j, id |-> req.id, asked |-> req.asked, seen |-> req.seen]
  /\ UNCHANGED <<JOBS, job, ncancel, NotRequestVars>>
  /\ History

\* lines 469-472: 404 if not path or not path.exists(); else FileResponse(path)
DownloadServe ==
  /\ req.kind = "download" /\ req.pc = "L469"
  /\ LET rest == [j |-> req.j, id |-> req.id, asked |-> req.asked, seen |-> req.seen]
     IN  IF req.path = None
         THEN req' = Respond("download", 404, "File not found") @@ rest
         ELSE IF ~FileAt(D(req.j), req.path).exists
         THEN req' = Respond("download", 404, "File not found") @@ rest
         ELSE req' = Respond("download", 200,
                             [path |-> req.path, content |-> FileAt(D(req.j), req.path).content])
                       @@ rest
  /\ UNCHANGED <<JOBS, job, ncancel, NotRequestVars>>
  /\ History

\* the response leaves the server; the request thread takes the next request
Return ==
  /\ req.pc = "respond"
  /\ req' = Idle
  /\ UNCHANGED <<JOBS, job, ncancel, NotRequestVars>>
  /\ History

\* ========================================================================= Next
\* Spec: one submission and its worker, with cancel requests
Next ==
  \/ SubmitBegin
  \/ SubmitRegister
  \/ SubmitStartThread
  \/ CancelSetFlag
  \/ CancelLog
  \/ Return
  \/ \E j \in JobSlots : Worker(j)

Spec == Init /\ [][Next]_vars

\* PollSpec: one submission and its worker, with polls and cancel requests; the
\* only exception of a run is the one process_job raises itself (no PDF)
PollInit == InitWith([jobs |-> MaxJobs, docs |-> PollDocs, pages |-> PollPages,
                      cancels |-> MaxCancels, oracle |-> PollOutcomes,
                      faults |-> {}])

PollNext ==
  \/ CancelSetFlag
  \/ CancelLog
  \/ SubmitBegin
  \/ SubmitRegister
  \/ SubmitStartThread
  \/ PollLookup
  \/ PollDownloads
  \/ PollLogTail
  \/ PollReadField
  \/ Return
  \/ \E j \in JobSlots : Worker(j)

PollSpec == PollInit /\ [][PollNext]_vars

\* FilingSpec: one submission and its worker, with every oracle outcome and
\* cancel requests
FilingInit == InitWith([jobs |-> MaxJobs, docs |-> MaxDocs, pages |-> MaxPages,
                        cancels |-> MaxCancels, oracle |-> OracleOutcomes,
                        faults |-> {"save"}])

FilingNext ==
  \/ CancelSetFlag
  \/ CancelLog
  \/ SubmitBegin
  \/ SubmitRegister
  \/ SubmitStartThread
  \/ Return
  \/ \E j \in JobSlots : Worker(j)

FilingSpec == FilingInit /\ [][FilingNext]_vars

\* DownloadSpec: one submission and its worker, with download and cancel requests
DownloadInit == InitWith([jobs |-> MaxJobs, docs |-> PollDocs, pages |-> PollPages,
                          cancels |-> MaxCancels, oracle |-> PollOutcomes,
                          faults |-> Faults])

DownloadNext ==
  \/ CancelSetFlag
  \/ CancelLog
  \/ SubmitBegin
  \/ SubmitRegister
  \/ SubmitStartThread
  \/ DownloadLookup
  \/ DownloadCheckStatus
  \/ DownloadReadPath
  \/ DownloadServe
  \/ Return
  \/ \E j \in JobSlots : Worker(j)

DownloadSpec == DownloadInit /\ [][DownloadNext]_vars

\* CancelSpec: one submission and its worker, with repeated cancel requests
CancelInit == InitWith([jobs |-> MaxJobs, docs |-> PollDocs, pages |-> PollPages,
                        cancels |-> MaxCancels + 1, oracle |-> PollOutcomes,
                        faults |-> {}])

CancelSpec == CancelInit /\ [][Next]_vars

\* IdSpec: two submissions whose ids are any values, and their workers
IdInit == InitWith([jobs |-> MaxJobs + 1, docs |-> PollDocs, pages |-> PollPages,
                    cancels |-> 0, oracle |-> PollOutcomes, faults |-> {}])

IdNext ==
  \/ SubmitAnyId
  \/ SubmitRegister
  \/ SubmitStartThread
  \/ Return
  \/ \E j \in JobSlots : WorkerUncancelled(j)

IdSpec == IdInit /\ [][IdNext]_vars

\* LogSpec: one job with a long log, its worker, and cancel requests and polls.
\* The run starts where start_process has accepted an upload of no PDF or of
\* one one-page PDF and started the worker thread, and n calls of cancel_job
\* for the job have returned before the worker's first step: the log holds n
\* lines, as many as a poll reports or as many as job_log keeps, or one fewer.
\* The worker finds cancel_requested set at its first check, or no PDF.
LogStarts == {LogTail, LogCap - 1, LogCap}

CancelLines(n) == [i \in 1..n |-> LogLine("Cancel requested", 0, 0, "")]

CancelledJob(id, n) ==
  [JobState(id) EXCEPT !.cancel_requested = TRUE, !.log = CancelLines(n)]

LogInit ==
  /\ lim = [jobs |-> MaxJobs, docs |-> PollDocs, pages |-> PollPages,
            cancels |-> MaxCancels, oracle |-> PollOutcomes, faults |-> {}]
  /\ client = TRUE
  /\ pdfinfo_from_path \in BOOLEAN
  /\ \E id \in JobIds, n \in LogStarts, pages \in 0..PollPages :
       /\ JOBS = [i \in JobIds |-> IF i = id THEN 1 ELSE 0]
       /\ job = [j \in JobSlots |-> IF j = 1 THEN CancelledJob(id, n) ELSE NoJob]
       /\ fs = [i \in JobIds |->
                  IF i = id
                  THEN [FS0 EXCEPT !.input = [d \in DocIds |-> IF d = 1 THEN pages ELSE 0]]
                  ELSE FS0]
       /\ h = [j \in JobSlots |->
                 IF j = 1
                 THEN [H0 EXCEPT !.cancelLive = TRUE,
                                 !.once = CancelledJob(id, n - 1),
                                 !.twice = CancelledJob(id, n)]
                 ELSE H0]
  /\ w = [j \in JobSlots |-> IF j = 1 THEN [W0 EXCEPT !.pc = "L174"] ELSE W0]
  /\ req = Idle
  /\ ncancel = 0
  /\ pollh = {}

\* process_job for a job cancelled before its first step: it ends at its first
\* cancellation check, or in the except clause when there is no PDF
WorkerCancelledAtStart(j) ==
  \/ SetRunning(j) \/ SetStartingMessage(j) \/ SetStartProgress(j)
  \/ ListInputs(j) \/ PreCount(j)
  \/ NextDocument(j) \/ SetCancelledMessage(j) \/ LogCancelAndReturn(j)
  \/ SetError(j) \/ SetErrorText(j) \/ SetErrorMessage(j) \/ LogError(j)
  \/ ClampProgressOnError(j)
  \/ AssignCutLog(j)

LogNext ==
  \/ CancelSetFlag
  \/ CancelLog
  \/ CancelAssignCutLog
  \/ PollLookup
  \/ PollDownloads
  \/ PollLogTail
  \/ PollReadField
  \/ Return
  \/ \E j \in JobSlots : WorkerCancelledAtStart(j)

LogSpec == LogInit /\ [][LogNext]_vars

\* FairSpec: the runs of Spec in which threads that can run do run: the
\* request thread that accepted a submission registers the job and starts its
\* worker, and the worker thread of every job is scheduled again and again
\* (render calls, oracle calls and sleeps return); what raises is process_job
\* itself (no PDF) and the rendering of a document
Fairness ==
  /\ WF_vars(SubmitRegister)
  /\ WF_vars(SubmitStartThread)
  /\ \A j \in JobSlots : WF_vars(Worker(j))

FairInit == InitWith([jobs |-> MaxJobs, docs |-> MaxDocs, pages |-> MaxPages,
                      cancels |-> MaxCancels, oracle |-> PollOutcomes,
                      faults |-> {"render"}])

FairSpec == FairInit /\ [][Next]_vars /\ Fairness

\* ======================================================================= claims
Jobs == {j \in JobSlots : Created(j)}

\* C1: the status of a job only moves queued -> running -> done, error or
\* cancelled: every step leaves it alone, starts the job, or ends a running
\* job; a terminal status never changes again.
StatusMonotonic ==
  [][\A j \in JobSlots :
       \/ job'[j].status = job[j].status
       \/ job[j].status = "queued" /\ job'[j].status = "running"
       \/ job[j].status = "running" /\ job'[j].status \in Terminal]_vars

\* C1 witness: a cancel request reached a job that had already ended
CancelAfterEnd ==
  \E j \in Jobs :
    job[j].status \in Terminal /\ job[j].cancel_requested /\ ~h[j].cancelLive
    /\ w[j].pc = "returned"

ProcessedWithinTotal ==
  \A j \in Jobs :
    job[j].total_pages > 0 => job[j].processed_pages <= job[j].total_pages

\* C4: progress_pct is an integer between 0 and 100 in every state of every job.
ProgressInRange ==
  \A j \in Jobs : job[j].progress_pct \in 0..100

\* C4 witness: progress was computed from processed_pages > total_pages
ProgressClamped ==
  \E j \in Jobs :
    /\ job[j].total_pages > 0 /\ job[j].processed_pages > job[j].total_pages
    /\ w[j].pc = "L226" /\ w[j].page_i > 1 /\ job[j].progress_pct = 100

\* C5 as claimed: the values of a get_job response are those of one state the
\* job was in between the start and the end of the poll.
PollIsSnapshot ==
  (req.kind = "poll" /\ req.pc = "respond" /\ req.code = 200) => pollh # {}

\* the artifact paths of a job
PathsSet(j) ==
  {p \in {job[j].csv_path, job[j].zip_all, job[j].zip_receipts_unstamped,
          job[j].zip_receipts_stamped, job[j].zip_credit_notes} : p # None}

\* C6 as claimed: an artifact path is set only in status done.
PathsOnlyWhenDone ==
  \A j \in Jobs : PathsSet(j) # {} => job[j].status = "done"

\* C6 as amended: no artifact path is set while the job is queued, cancelled
\* or still in its document loop; the paths are set while the status is still
\* running, from the CSV step on, and stay set when the job then ends done or,
\* its CSV or archive writing having failed, error.
PathsOnlyFromCsvStep ==
  \A j \in Jobs :
    PathsSet(j) # {} =>
      /\ job[j].status \in {"running", "done", "error"}
      /\ job[j].status = "running" =>
           w[j].pc \in (AfterLoops \ {"L295", "L331", "L332"})
      /\ job[j].status = "error" => w[j].exc \in {"csv failed", "zip failed"}

\* C6 witness: a job ended in error with its csv_path set
ErrorWithPath ==
  \E j \in Jobs :
    job[j].status = "error" /\ job[j].csv_path # None /\ w[j].pc = "returned"

\* C7 as claimed: a done job whose total came from the pre-count has
\* processed_pages = total_pages.
DoneCountsEveryPage ==
  \A j \in Jobs :
    (job[j].status = "done" /\ w[j].total_pages_est > 0) =>
      job[j].processed_pages = job[j].total_pages

\* C8: in status done, progress_pct is 100, the four archive paths are set and
\* the four archives are written, and the CSV path is set, and the CSV file
\* written, exactly if a page was classified.
DoneIsComplete ==
  \A j \in Jobs :
    job[j].status = "done" =>
      /\ job[j].progress_pct = 100
      /\ job[j].zip_all # None /\ job[j].zip_receipts_unstamped # None
      /\ job[j].zip_receipts_stamped # None /\ job[j].zip_credit_notes # None
      /\ \A k \in ZipKinds : D(j).zips[k].built
      /\ job[j].csv_path # None <=> w[j].all_rows # << >>
      /\ D(j).csv.exists <=> w[j].all_rows # << >>
      /\ w[j].all_rows # << >> <=> \E f \in D(j).output : f.page > 0

\* C8 witness: a done job all of whose pages got an oracle error
DoneWithoutCsv ==
  \E j \in Jobs :
    /\ job[j].status = "done" /\ job[j].processed_pages >= 1
    /\ job[j].csv_path = None /\ ~D(j).csv.exists
    /\ \A f \in D(j).output : f.page = 0

\* C9: while and after the worker handles a page whose oracle call returned an
\* error indicator, the job stays running, the output tree and the rows are
\* as they were, and once the page is handled processed_pages is one more and
\* the worker is at the next page.
OracleErrorIsolated ==
  \A j \in Jobs :
    h[j].errPage # "no" =>
      /\ job[j].status = "running"
      /\ D(j).output = h[j].preOutput
      /\ Len(w[j].all_rows) = h[j].preRows
      /\ h[j].errPage = "handling" => job[j].processed_pages = h[j].preProcessed
      /\ h[j].errPage = "handled" =>
           /\ job[j].processed_pages = h[j].preProcessed + 1
           /\ w[j].pc = "L226" /\ w[j].page_i = h[j].prePage + 1

\* C9 witness: an error page was handled and another page follows
ErrorPageHandled ==
  \E j \in Jobs :
    h[j].errPage = "handled" /\ w[j].page_i <= w[j].pages

\* the decision table of the filing rule
DecisionTable ==
  { [is_receipt |-> TRUE, has_stamp |-> TRUE,
     dir |-> "receipts/stamped", label |-> "STAMPED_RECEIPT"],
    [is_receipt |-> TRUE, has_stamp |-> FALSE,
     dir |-> "receipts/unstamped", label |-> "UNSTAMPED_RECEIPT"],
    [is_receipt |-> FALSE, has_stamp |-> TRUE,
     dir |-> "credit_notes", label |-> "CREDIT_NOTE"],
    [is_receipt |-> FALSE, has_stamp |-> FALSE,
     dir |-> "credit_notes", label |-> "CREDIT_NOTE"] }

\* a verdict field as the table reads it: an absent field is false
AsRead(v) == CASE v = "true" -> TRUE [] v = "false" -> FALSE [] v = "absent" -> FALSE

\* the files of page n of document d in the output tree
FilesOfPage(j, d, n) == {f \in D(j).output : f.doc = d /\ f.page = n}

\* C10: a page with a verdict is written to the one directory the decision
\* table gives for (is_receipt, has_stamp), absent fields read as false, and
\* to no other; its row carries the two flags and the label of that directory.
FilingFollowsTable ==
  \A j \in Jobs :
    /\ w[j].pc = "L270" =>
         \E e \in DecisionTable :
           /\ e.is_receipt = AsRead(w[j].analysis.is_receipt)
           /\ e.has_stamp = AsRead(w[j].analysis.has_stamp)
           /\ FilesOfPage(j, w[j].input_pdfs[w[j].pdf_i], w[j].page_i) =
                {[doc |-> w[j].input_pdfs[w[j].pdf_i], dir |-> e.dir, page |-> w[j].page_i]}
    /\ \A i \in 1..Len(w[j].all_rows) :
         LET r == w[j].all_rows[i]
         IN  \E e \in DecisionTable :
               /\ e.is_receipt = r.is_receipt /\ e.has_stamp = r.has_stamp
               /\ e.label = r.status
               /\ FilesOfPage(j, r.source_pdf, r.page) =
                    {[doc |-> r.source_pdf, dir |-> e.dir, page |-> r.page]}

\* C10 witness: a second page, whose verdict has no has_stamp field, was filed
FiledWithAbsentField ==
  \E j \in Jobs :
    /\ w[j].pc = "L270" /\ Len(w[j].all_rows) = 1
    /\ w[j].analysis.is_receipt = "true" /\ w[j].analysis.has_stamp = "absent"

\* the artifact a download of that kind is about: the file behind the path the
\* job holds for it, if the path is set and the file is there
Artifact(j, kind) ==
  LET path == CASE kind = "all" -> job[j].zip_all
                [] kind = "receipts_unstamped" -> job[j].zip_receipts_unstamped
                [] kind = "receipts_stamped" -> job[j].zip_receipts_stamped
                [] kind = "credit_notes" -> job[j].zip_credit_notes
                [] kind = "csv" -> job[j].csv_path
      file == CASE path = "classification_log.csv" -> D(j).csv
                [] path = "zips/all_output.zip" -> D(j).zips["all"]
                [] path = "zips/receipts_unstamped.zip" -> D(j).zips["receipts_unstamped"]
                [] path = "zips/receipts_stamped.zip" -> D(j).zips["receipts_stamped"]
                [] path = "zips/credit_notes.zip" -> D(j).zips["credit_notes"]
                [] OTHER -> [none |-> TRUE]
  IN  [path |-> path, file |-> file]

ArtifactThere(j, kind) ==
  LET a == Artifact(j, kind)
  IN  /\ a.path # None
      /\ IF a.path = "classification_log.csv" THEN a.file.exists ELSE a.file.built

\* C11: a download answers 200 with a file only for a job in the store whose
\* status it found done, a known kind, and an artifact whose path is set and
\* whose file exists, and the file it sends is that artifact; it answers 404
\* for an unknown job, 400 when it found the status not done, and 404 for an
\* unknown kind or a missing artifact; it sends no file with an error.
DownloadOnlyWhenDone ==
  (req.kind = "download" /\ req.pc = "respond") =>
    LET known == JOBS[req.id] # 0
        valid == req.asked \in (Kinds \ {"other"})
    IN  /\ req.code \in {200, 400, 404}
        /\ req.code = 200 <=>
              /\ known /\ req.seen = "done" /\ valid /\ ArtifactThere(JOBS[req.id], req.asked)
        /\ req.code = 200 =>
              /\ job[req.j].status = "done"
              /\ req.body.path = Artifact(req.j, req.asked).path
              /\ req.body.content =
                   (IF req.asked = "csv" THEN D(req.j).csv.rows
                    ELSE D(req.j).zips[req.asked].entries)
        /\ req.code = 400 <=> (known /\ req.seen # "done")
        /\ req.code = 404 <=>
              (~known \/ (req.seen = "done" /\ (~valid \/ ~ArtifactThere(JOBS[req.id], req.asked))))
        /\ req.code # 200 => req.body \in {"Job not found", "Job not completed yet",
                                           "Unknown download type", "File not found"}

\* C11 witness: the CSV of a done job was served, with a row in it
ServedCsv ==
  /\ req.kind = "download" /\ req.pc = "respond" /\ req.code = 200
  /\ req.asked = "csv" /\ Len(req.body.content) = 1
  /\ job[req.j].status = "done"

\* a step of the cancel_job handler
CancelStep ==
  \/ req = Idle /\ req'.kind = "cancel"
  \/ req.kind = "cancel" /\ req.pc # "respond" /\ req' # req

\* the fields of a job that cancel_job is said to leave alone
Framed(jb) ==
  <<jb.job_id, jb.status, jb.progress_pct, jb.processed_pages, jb.total_pages, jb.error,
    jb.csv_path, jb.zip_all, jb.zip_receipts_unstamped, jb.zip_receipts_stamped,
    jb.zip_credit_notes>>

\* C12: a step of cancel_job changes no job's status, progress_pct,
\* processed_pages, total_pages, error or artifact paths; for a job in the
\* store its first step sets that job's cancel_requested and touches no other
\* job; for an unknown id it changes no job at all.
CancelFrame ==
  [][CancelStep =>
       /\ \A j \in JobSlots : Framed(job'[j]) = Framed(job[j])
       /\ (req = Idle /\ req'.pc = "respond") => job' = job
       /\ (req = Idle /\ req'.pc # "respond") =>
            /\ job'[req'.j].cancel_requested
            /\ \A j \in JobSlots \ {req'.j} : job'[j] = job[j]]_vars

\* C12 witness: cancel_job has run to its end on a job that was already done
CancelOnDoneJob ==
  /\ req.kind = "cancel" /\ req.pc = "respond" /\ req.code = 200
  /\ job[req.j].status = "done" /\ job[req.j].cancel_requested
  /\ ~h[req.j].cancelLive

Logged(log, line) ==
  IF Cut(Append(log, line)) = NoCut THEN Append(log, line) ELSE Cut(Append(log, line))

RegisteredBeforeStart ==
  /\ (req.kind = "submit" /\ req.pc = "L392") =>
        /\ JOBS[req.id] = req.j /\ w[req.j].pc = "not_started"
        /\ job[req.j] = JobState(req.id)
  /\ \A j \in JobSlots :
        w[j].pc # "not_started" => (Created(j) /\ JOBS[job[j].job_id] = j)
  /\ (req.kind = "submit" /\ req.pc = "respond" /\ req.code = 200) =>
        (JOBS[req.body] # 0 /\ job[JOBS[req.body]].job_id = req.body)
  /\ (req.kind \in {"poll", "cancel"} /\ req.pc = "respond" /\ req.code = 404) =>
        ~ \E j \in Jobs : job[j].job_id = req.id /\ w[j].pc # "not_started"

\* C14 witness: a poll found the job before its worker took its first step
PolledWhileQueued ==
  /\ req.kind = "poll" /\ req.pc = "respond" /\ req.code = 200
  /\ req.body.status = "queued" /\ w[req.j].pc = "L174"

\* C15 as claimed: an entry of the job store is never replaced, and a job's
\* job_id never changes.
NeverReplaced ==
  [][/\ \A id \in JobIds : JOBS[id] # 0 => JOBS'[id] = JOBS[id]
     /\ \A j \in Jobs : job'[j].job_id = job[j].job_id]_vars

\* C16 as claimed: every change of a field of a created job is made by a step
\* of that job's own worker thread.
OnlyWorkerWrites ==
  [][\A j \in Jobs : job'[j] # job[j] => w'[j] # w[j]]_vars

\* a thread is inside a call of job_log on job j
InJobLog(j) ==
  \/ w[j].cut # NoCut
  \/ req.kind = "cancel" /\ req.pc = "L80" /\ req.j = j

\* the last n entries of a log, all of them if it has no more
Newest(log, n) ==
  [i \in 1..(IF Len(log) < n THEN Len(log) ELSE n) |->
     log[Len(log) - (IF Len(log) < n THEN Len(log) ELSE n) + i]]

\* with no call of job_log under way the log holds at most 4000 entries
LogCapped ==
  \A j \in Jobs : ~InJobLog(j) => Len(job[j].log) <= LogCap

\* a step that changes the log appends one entry to it, or cuts a log of more
\* than 4000 entries to its 2000 newest
LogAppendedOrCut ==
  \A j \in Jobs :
    job'[j].log # job[j].log =>
      \/ /\ Len(job'[j].log) = Len(job[j].log) + 1
         /\ SubSeq(job'[j].log, 1, Len(job[j].log)) = job[j].log
      \/ /\ Len(job[j].log) > LogCap
         /\ job'[j].log = Newest(job[j].log, LogKeep)

\* a poll reports the last min(40, len(log)) entries, in order
PollTailNewest ==
  (req.kind = "poll" /\ req.pc = "L415" /\ req'.pc = "L419") =>
    req'.body.log_tail = Newest(job[req.j].log, LogTail)

\* C20 as claimed: after every completed call of job_log the log holds at most
\* 4000 entries; the log is only appended to, except that an append taking it
\* past 4000 entries is followed by a cut to its 2000 newest entries; and a
\* poll reports the last min(40, len(log)) entries in order.
JobLogContract ==
  [][LogCapped' /\ LogAppendedOrCut /\ PollTailNewest]_vars

\* the except clause of process_job, lines 334-339
ExceptClause == {"L335", "L336", "L337", "L338", "L339", "returned"}

\* C17: once a step of process_job has raised, the worker runs the except
\* clause and nothing else (the job directory and processed_pages stay as
\* they were at the raise), and when it has returned the job has status error,
\* error is the exception's text and progress_pct is what it was just before
\* the exception; a job whose upload held no PDF ends that way with
\* processed_pages 0 and nothing filed.
ErrorEndsJob ==
  \A j \in Jobs :
    /\ w[j].exc # None =>
         /\ w[j].pc \in ExceptClause
         /\ D(j) = h[j].raisedDir
         /\ job[j].processed_pages = h[j].raisedProcessed
         /\ w[j].pc = "returned" =>
              /\ job[j].status = "error"
              /\ job[j].error = w[j].exc
              /\ job[j].progress_pct = h[j].raisedPct
    /\ (w[j].pc = "returned" /\ w[j].input_pdfs = << >>) =>
         /\ job[j].status = "error"
         /\ job[j].error = "No PDFs found in upload."
         /\ job[j].processed_pages = 0
         /\ D(j).output = {}

\* a job ended by a failure after it had filed a page
FailedAfterFiling ==
  \E j \in Jobs :
    /\ w[j].pc = "returned" /\ w[j].exc # None
    /\ job[j].processed_pages > 0 /\ job[j].progress_pct > StartPct

\* a job ended because its upload held no PDF
FailedWithoutPdf ==
  \E j \in Jobs : w[j].pc = "returned" /\ w[j].input_pdfs = << >>

\* the document the worker was at when it observed the cancel request
CurrentDocument(j) == w[j].input_pdfs[w[j].pdf_i]

\* C18: while a job's status is cancelled its csv_path and four zip paths are
\* unset and no CSV or archive exists in its directory, its error is unset,
\* and the document the worker was at when it observed the request is still
\* in the input directory.
CancelledLeavesNoArtifact ==
  \A j \in Jobs :
    job[j].status = "cancelled" =>
      /\ PathsSet(j) = {}
      /\ ~D(j).csv.exists
      /\ \A k \in ZipKinds : ~D(j).zips[k].built
      /\ job[j].error = None
      /\ w[j].pdf_i \in 1..Len(w[j].input_pdfs)
      /\ D(j).input[CurrentDocument(j)] > 0

\* a job cancelled in the middle of a document, a page of it already filed
\* and its row accumulated
CancelledAfterFiling ==
  \E j \in Jobs :
    /\ job[j].status = "cancelled" /\ w[j].pc = "returned"
    /\ w[j].all_rows # << >>
    /\ \E f \in D(j).output : f.doc = CurrentDocument(j) /\ f.page > 0

\* the (document, page) of every entry of a sequence of calls or of rows
PagesIn(s) ==
  [k \in 1..Len(s) |->
     IF "doc" \in DOMAIN s[k] THEN [doc |-> s[k].doc, page |-> s[k].page]
     ELSE [doc |-> s[k].source_pdf, page |-> s[k].page]]

Verdict(c) == c.ok

\* C19: the oracle calls of a job are made in the order of the documents'
\* names and, within a document, of the pages from 1 upwards, no page is
\* submitted twice, and the rows of a CSV that has been written are the pages
\* for which a verdict came back, in the order of the calls.
OracleCallsInOrder ==
  \A j \in Jobs :
    LET calls == h[j].calls
    IN  /\ \A a, b \in 1..Len(calls) :
             a < b => \/ calls[a].doc < calls[b].doc
                      \/ calls[a].doc = calls[b].doc /\ calls[a].page < calls[b].page
        /\ \A k \in 1..Len(calls) :
             \/ calls[k].page = 1
             \/ /\ k > 1
                /\ calls[k - 1].doc = calls[k].doc
                /\ calls[k - 1].page = calls[k].page - 1
        /\ D(j).csv.exists =>
             PagesIn(D(j).csv.rows) = PagesIn(SelectSeq(calls, Verdict))

\* a CSV written after two documents were submitted, one page of them
\* without a verdict
CsvOfTwoDocuments ==
  \E j \in Jobs :
    /\ D(j).csv.exists
    /\ Len(h[j].calls) = 2
    /\ h[j].calls[1].doc # h[j].calls[2].doc
    /\ Len(D(j).csv.rows) = 1

\* C21 as claimed: a get_job response carries the download links exactly when
\* the status it reports is done.
DownloadsIffDone ==
  (req.kind = "poll" /\ req.pc = "respond" /\ req.code = 200) =>
    (req.body.downloads <=> req.body.status = "done")

\* C22: when the threads are scheduled fairly every job that was created
\* reaches status done, error or cancelled, and whenever process_job has
\* returned, by whichever exit, the job's status is one of these.
EveryJobEnds ==
  /\ \A j \in JobSlots : [](w[j].pc = "returned" => job[j].status \in Terminal)
  /\ \A j \in JobSlots : Created(j) ~> (job[j].status \in Terminal)

\* a job whose worker left process_job through a cancel return
ReturnedCancelled ==
  \E j \in Jobs : w[j].pc = "returned" /\ job[j].status = "cancelled"

\* C23 as claimed: no step lowers a job's progress_pct or its processed_pages.
NeverDecreases ==
  [][\A j \in JobSlots :
       /\ job'[j].progress_pct >= job[j].progress_pct
       /\ job'[j].processed_pages >= job[j].processed_pages]_vars

\* C23, amended: no step lowers processed_pages, and the only step that lowers
\* progress_pct is the recomputation before a page (line 237) while no page
\* has been counted yet, which takes it from the start marker 1 to 0.
DecreasesOnlyFromStartMarker ==
  [][\A j \in JobSlots :
       /\ job'[j].processed_pages >= job[j].processed_pages
       /\ \/ job'[j].progress_pct >= job[j].progress_pct
          \/ /\ w[j].pc = "L236" /\ w'[j].pc = "L242"
             /\ job[j].processed_pages = 0
             /\ job[j].progress_pct = StartPct
             /\ job'[j].progress_pct = 0]_vars

\* a running job whose progress_pct is back at 0, its first page about to be
\* submitted
BackToZero ==
  \E j \in Jobs :
    /\ job[j].status = "running" /\ w[j].pc = "L242"
    /\ job[j].progress_pct = 0 /\ job[j].progress_pct < StartPct

====
